---- MODULE Spec2Model ----
(***************************************************************************)
(* The cart / checkout backend of src/main.py over its document store.     *)
(*                                                                         *)
(* db     the document store: the collections product, cart and order,     *)
(*        and per collection the number of ObjectIds generated so far      *)
(*        (an ObjectId is never reused).                                   *)
(* procs  per worker the request it handles, with its position in the      *)
(*        handler, the handler's local variables and, once the handler has *)
(*        returned or raised (pc = "done"), the response.                  *)
(*                                                                         *)
(* Spec runs every handler to its response without interleaving; SpecConc  *)
(* interleaves the store calls of the handlers of two workers.             *)
(*                                                                         *)
(* Identifier strings are integers: a positive integer n is the 24 hex     *)
(* digit string of ObjectId n, EmptyId is the empty string and NotHexId a  *)
(* string that is not hexadecimal.  Money is counted in thousandths of a   *)
(* dollar, so that rounding to 2 decimals is a computation.                *)
(***************************************************************************)
EXTENDS Integers, Sequences, FiniteSets, TLC

VARIABLES db, procs

vars == <<db, procs>>

---------------------------------------------------------------------------
(* Bounds of the model *)

MaxSeeds == 2
MaxCartDocs == 2
MaxOrders == 2
MaxQty == 3

(* Inputs *)

EmptyId == 0
NotHexId == -1
Workers == {1, 2}
SessionIds == {"s1", "s2"}
ProductIdInputs == {NotHexId, 1, 2, 5}
QuantityInputs == {-2, 0, 1, 2}
ConcProductIds == {1, 2}
ConcQuantities == {1, 2}
EmailInputs == {"ann@shop.io", "ann-at-shop"}

---------------------------------------------------------------------------
(* Values *)

NoneTitle == "<None>"

\* bson.ObjectId(s) accepts a 24 hex digit string and raises otherwise.
ObjectIdValid(s) == s >= 1

\* Python truth value of an identifier string: only "" is false.
Truthy(s) == s # EmptyId

\* pydantic EmailStr: one "@" between a local part and a domain.
EmailStrValid(e) == e \in {"ann@shop.io"}

\* CartItem.quantity: Field(1, ge=1), checked before the handler is entered.
CartItemValid(req) == req.quantity >= 1

\* round(x, 2) on thousandths: to the nearest hundredth, a tie to the even one.
Round2(x) ==
    LET r == x % 10
        down == x - r
    IN  IF r < 5 THEN down
        ELSE IF r > 5 THEN down + 10
        ELSE IF (down \div 10) % 2 = 0 THEN down ELSE down + 10

sample_products ==
    << [title |-> "Classic Tee", price |-> 19990],
       [title |-> "Minimal Backpack", price |-> 49000],
       [title |-> "Wireless Earbuds", price |-> 59990],
       [title |-> "Ceramic Mug", price |-> 12500] >>

\* The documents of S as a cursor returns them: in natural (insertion) order.
RECURSIVE Natural(_)
Natural(S) ==
    IF S = {} THEN <<>>
    ELSE LET first == CHOOSE x \in S : \A y \in S : x._id <= y._id
         IN  <<first>> \o Natural(S \ {first})

\* collection.find_one(filter): the first matching document, or none.
FindOne(S) == IF S = {} THEN {} ELSE {Head(Natural(S))}

---------------------------------------------------------------------------
(* Requests and handler frames *)

Request(op, s, pid, q, email, force) ==
    [op |-> op, session_id |-> s, product_id |-> pid, quantity |-> q,
     customer_email |-> email, force |-> force]

NoRequest == Request("none", "s1", EmptyId, 0, "ann@shop.io", FALSE)

Frame(req, pc) ==
    [req |-> req, pc |-> pc,
     \* locals
     existing |-> {}, new_qty |-> 0, items |-> <<>>, enriched |-> <<>>,
     total |-> 0, doc_id |-> 0,
     \* response
     status |-> 0, removed |-> FALSE, line |-> {}, cart_total |-> 0,
     order_id |-> 0, count |-> 0, orders |-> <<>>]

Idle == Frame(NoRequest, "idle")

Respond(p, status) == [p EXCEPT !.pc = "done", !.status = status]

Out(p, d) == [p |-> p, db |-> d]

---------------------------------------------------------------------------
(* The store adapter (database.py) *)

\* create_document(collection, data): inserts the model's fields under a fresh
\* ObjectId, stamped with the creation time, and returns the new id.  The
\* clock is later at every insert, as the collection's ObjectId counter is.
create_document(d, coll, doc) ==
    LET id == d.oid[coll] + 1
        new == [_id |-> id, created_at |-> id] @@ doc
    IN  [id |-> id,
         db |-> [d EXCEPT ![coll] = @ \cup {new}, !.oid[coll] = id]]

---------------------------------------------------------------------------
(* get_product_or_404 *)

\* Faulty variant: the lookup is made first and an identifier that cannot be
\* parsed is reported as not found.
get_product_or_404_NotFoundFirst(product_id, d) ==
    LET prod == FindOne({x \in d.product : x._id = product_id})
    IN  IF prod = {} THEN [status |-> 404, prod |-> {}]
        ELSE [status |-> 200, prod |-> prod]

get_product_or_404(product_id, d) ==
    IF ~ObjectIdValid(product_id)
    THEN [status |-> 400, prod |-> {}]
    ELSE LET prod == FindOne({x \in d.product : x._id = product_id})
         IN  IF prod = {} THEN [status |-> 404, prod |-> {}]
             ELSE [status |-> 200, prod |-> prod]

---------------------------------------------------------------------------
(* add_to_cart *)

\* Faulty variant: the filter is the whole item, quantity included.
CartLineFilterWholeItem(c, req) ==
    /\ c.session_id = req.session_id
    /\ c.product_id = req.product_id
    /\ c.quantity = req.quantity

\* line 116: the filter {"session_id": ..., "product_id": ...}
CartLineFilter(c, req) ==
    c.session_id = req.session_id /\ c.product_id = req.product_id

\* line 118
NewQty(quantity, delta) == quantity + delta

\* Faulty variant: the product is not looked up before the cart is read.
AddGetProductSkipped(p, d) ==
    IF ~ObjectIdValid(p.req.product_id) THEN Out(Respond(p, 400), d)
    ELSE Out([p EXCEPT !.pc = "add_find_existing"], d)

\* line 114
AddGetProduct(p, d) ==
    LET r == get_product_or_404(p.req.product_id, d)
    IN  IF r.status # 200 THEN Out(Respond(p, r.status), d)
        ELSE Out([p EXCEPT !.pc = "add_find_existing"], d)

\* lines 116-118 and 125-127
AddFindExisting(p, d) ==
    LET existing == FindOne({c \in d.cart : CartLineFilter(c, p.req)})
    IN  IF existing # {}
        THEN LET e == CHOOSE x \in existing : TRUE
             IN  Out([p EXCEPT !.existing = existing,
                               !.new_qty = NewQty(e.quantity, p.req.quantity),
                               !.pc = "add_write"], d)
        ELSE IF p.req.quantity <= 0 THEN Out(Respond(p, 400), d)
        ELSE Out([p EXCEPT !.pc = "add_create"], d)

\* lines 119-122: delete_one or update_one by the _id read before
AddWrite(p, d) ==
    LET e == CHOOSE x \in p.existing : TRUE
    IN  IF p.new_qty <= 0
        THEN Out([Respond(p, 200) EXCEPT !.removed = TRUE],
                 [d EXCEPT !.cart = {c \in @ : c._id # e._id}])
        ELSE Out([p EXCEPT !.pc = "add_reread"],
                 [d EXCEPT !.cart =
                     {IF c._id = e._id THEN [c EXCEPT !.quantity = p.new_qty]
                      ELSE c : c \in @}])

\* lines 123-124
AddReread(p, d) ==
    LET e == CHOOSE x \in p.existing : TRUE
        updated == FindOne({c \in d.cart : c._id = e._id})
    IN  Out([Respond(p, 200) EXCEPT !.line = updated], d)

\* Hardened variant: the insert is an upsert on (session_id, product_id).
AddCreateUpsert(p, d) ==
    LET now == FindOne({c \in d.cart : CartLineFilter(c, p.req)})
    IN  IF now = {}
        THEN LET r == create_document(d, "cart",
                          [session_id |-> p.req.session_id,
                           product_id |-> p.req.product_id,
                           quantity |-> p.req.quantity])
             IN  Out([p EXCEPT !.doc_id = r.id, !.pc = "add_read_created"], r.db)
        ELSE LET e == CHOOSE x \in now : TRUE
             IN  Out([p EXCEPT !.doc_id = e._id, !.pc = "add_read_created"],
                     [d EXCEPT !.cart =
                         {IF c._id = e._id
                          THEN [c EXCEPT !.quantity = NewQty(@, p.req.quantity)]
                          ELSE c : c \in @}])

\* Faulty variant: the line is created with the schema's default quantity.
AddCreateDefaultQuantity(p, d) ==
    LET r == create_document(d, "cart",
                 [session_id |-> p.req.session_id,
                  product_id |-> p.req.product_id,
                  quantity |-> 1])
    IN  Out([p EXCEPT !.doc_id = r.id, !.pc = "add_read_created"], r.db)

\* line 128
AddCreate(p, d) ==
    LET r == create_document(d, "cart",
                 [session_id |-> p.req.session_id,
                  product_id |-> p.req.product_id,
                  quantity |-> p.req.quantity])
    IN  Out([p EXCEPT !.doc_id = r.id, !.pc = "add_read_created"], r.db)

\* lines 129-130
AddReadCreated(p, d) ==
    LET created == FindOne({c \in d.cart : c._id = p.doc_id})
    IN  Out([Respond(p, 200) EXCEPT !.line = created], d)

---------------------------------------------------------------------------
(* get_cart, and checkout from its cart_data on *)

\* Faulty variant: the quantity is left out.
SubtotalOfOne(qty, price) == price

\* line 143
Subtotal(qty, price) == qty * price

\* lines 145-153: one entry of the hydrated view
Enriched(it, prod, qty, price) ==
    [id |-> it._id, product_id |-> it.product_id, quantity |-> qty,
     title |-> IF prod = {} THEN NoneTitle ELSE (CHOOSE x \in prod : TRUE).title,
     price |-> price, subtotal |-> Round2(Subtotal(qty, price))]

\* lines 180-186: the snapshot of one hydrated entry ("x or default")
OrderItem(it) ==
    [product_id |-> it.product_id,
     title |-> IF it.title = NoneTitle THEN "" ELSE it.title,
     price |-> it.price,
     quantity |-> IF it.quantity = 0 THEN 1 ELSE it.quantity,
     subtotal |-> it.subtotal]

OrderItems(enriched) == [i \in 1..Len(enriched) |-> OrderItem(enriched[i])]

\* Faulty variant: an empty cart is not refused.
CartReturnNoEmptyCheck(p, d) ==
    LET q == [p EXCEPT !.cart_total = Round2(p.total)]
    IN  IF p.req.op = "get_cart" THEN Out(Respond(q, 200), d)
        ELSE IF ~EmailStrValid(p.req.customer_email) THEN Out(Respond(q, 500), d)
        ELSE Out([q EXCEPT !.pc = "checkout_create"], d)

\* Faulty variant: the Order's fields are validated before the empty check.
CartReturnEmailFirst(p, d) ==
    LET q == [p EXCEPT !.cart_total = Round2(p.total)]
    IN  IF p.req.op = "get_cart" THEN Out(Respond(q, 200), d)
        ELSE IF ~EmailStrValid(p.req.customer_email) THEN Out(Respond(q, 500), d)
        ELSE IF Len(q.enriched) = 0 THEN Out(Respond(q, 400), d)
        ELSE Out([q EXCEPT !.pc = "checkout_create"], d)

\* line 154, and for checkout lines 175-194: the empty check, then the Order
\* model is built and its EmailStr validated (a pydantic ValidationError raised
\* inside the handler is answered 500).
CartReturn(p, d) ==
    LET q == [p EXCEPT !.cart_total = Round2(p.total)]
    IN  IF p.req.op = "get_cart" THEN Out(Respond(q, 200), d)
        ELSE IF Len(q.enriched) = 0 THEN Out(Respond(q, 400), d)
        ELSE IF ~EmailStrValid(p.req.customer_email) THEN Out(Respond(q, 500), d)
        ELSE Out([q EXCEPT !.pc = "checkout_create"], d)

\* line 135: the session's lines, read once; lines 137-138
CartFind(p, d) ==
    LET items == Natural({c \in d.cart : c.session_id = p.req.session_id})
        q == [p EXCEPT !.items = items, !.enriched = <<>>, !.total = 0]
    IN  IF items = <<>> THEN CartReturn(q, d)
        ELSE Out([q EXCEPT !.pc = "cart_hydrate"], d)

\* Faulty variant: a line whose product is gone is left out of the view.
CartHydrateSkipMissing(p, d) ==
    LET it == Head(p.items)
        r == IF Truthy(it.product_id) THEN get_product_or_404(it.product_id, d)
             ELSE [status |-> 200, prod |-> {}]
        q == IF r.status # 200 THEN [p EXCEPT !.items = Tail(@)]
             ELSE LET price == IF r.prod = {} THEN 0
                               ELSE (CHOOSE x \in r.prod : TRUE).price
                  IN  [p EXCEPT !.items = Tail(@),
                                !.total = @ + Subtotal(it.quantity, price),
                                !.enriched = Append(@, Enriched(it, r.prod, it.quantity, price))]
    IN  IF q.items = <<>> THEN CartReturn(q, d) ELSE Out(q, d)

\* lines 139-153: one turn of the loop, on the first item not yet hydrated
CartHydrate(p, d) ==
    LET it == Head(p.items)
        r == IF Truthy(it.product_id) THEN get_product_or_404(it.product_id, d)
             ELSE [status |-> 200, prod |-> {}]
    IN  IF r.status # 200 THEN Out(Respond(p, r.status), d)
        ELSE LET price == IF r.prod = {} THEN 0
                          ELSE (CHOOSE x \in r.prod : TRUE).price
                 qty == it.quantity
                 q == [p EXCEPT !.items = Tail(@),
                                !.total = @ + Subtotal(qty, price),
                                !.enriched = Append(@, Enriched(it, r.prod, qty, price))]
             IN  IF q.items = <<>> THEN CartReturn(q, d) ELSE Out(q, d)

\* Hardened variant: no Order is persisted once a snapshotted line has left
\* the cart.
CheckoutCreateGuarded(p, d) ==
    IF \E k \in 1..Len(p.enriched) : \A c \in d.cart : c._id # p.enriched[k].id
    THEN Out(Respond(p, 400), d)
    ELSE LET r == create_document(d, "order",
                      [session_id |-> p.req.session_id,
                       customer_email |-> p.req.customer_email,
                       items |-> OrderItems(p.enriched),
                       total |-> p.cart_total])
         IN  Out([p EXCEPT !.doc_id = r.id, !.pc = "checkout_clear"], r.db)

\* Faulty variant: the cart is cleared by the call that persists the Order.
CheckoutCreateClearFirst(p, d) ==
    LET cleared == [d EXCEPT !.cart = {c \in @ : c.session_id # p.req.session_id}]
        r == create_document(cleared, "order",
                 [session_id |-> p.req.session_id,
                  customer_email |-> p.req.customer_email,
                  items |-> OrderItems(p.enriched),
                  total |-> p.cart_total])
    IN  Out([p EXCEPT !.doc_id = r.id, !.pc = "checkout_clear"], r.db)

\* Faulty variant: the session's order is upserted, replacing its earlier ones.
CheckoutCreateUpsert(p, d) ==
    LET kept == [d EXCEPT !.order = {o \in @ : o.session_id # p.req.session_id}]
        r == create_document(kept, "order",
                 [session_id |-> p.req.session_id,
                  customer_email |-> p.req.customer_email,
                  items |-> OrderItems(p.enriched),
                  total |-> p.cart_total])
    IN  Out([p EXCEPT !.doc_id = r.id, !.pc = "checkout_clear"], r.db)

\* line 195
CheckoutCreate(p, d) ==
    LET r == create_document(d, "order",
                 [session_id |-> p.req.session_id,
                  customer_email |-> p.req.customer_email,
                  items |-> OrderItems(p.enriched),
                  total |-> p.cart_total])
    IN  Out([p EXCEPT !.doc_id = r.id, !.pc = "checkout_clear"], r.db)

\* Hardened variant: only the lines that were snapshotted are deleted.
CheckoutClearSnapshot(p, d) ==
    Out([Respond(p, 200) EXCEPT !.order_id = p.doc_id],
        [d EXCEPT !.cart = {c \in @ : \A k \in 1..Len(p.enriched) :
                                          c._id # p.enriched[k].id}])

\* Faulty variant: the delete has no session filter.
CheckoutClearAll(p, d) ==
    Out([Respond(p, 200) EXCEPT !.order_id = p.doc_id],
        [d EXCEPT !.cart = {}])

\* Faulty variant: the clear uses cleanup_cart's filter.
CheckoutClearStale(p, d) ==
    Out([Respond(p, 200) EXCEPT !.order_id = p.doc_id],
        [d EXCEPT !.cart = {c \in @ : ~(c.session_id = p.req.session_id
                                         /\ c.quantity <= 0)}])

\* Faulty variant: the lines are emptied (quantity 0) instead of deleted.
CheckoutClearZero(p, d) ==
    Out([Respond(p, 200) EXCEPT !.order_id = p.doc_id],
        [d EXCEPT !.cart = {IF c.session_id = p.req.session_id
                            THEN [c EXCEPT !.quantity = 0] ELSE c : c \in @}])

\* lines 197-198
CheckoutClear(p, d) ==
    Out([Respond(p, 200) EXCEPT !.order_id = p.doc_id],
        [d EXCEPT !.cart = {c \in @ : c.session_id # p.req.session_id}])

---------------------------------------------------------------------------
(* cleanup_cart *)

\* Faulty variant: the filter is quantity <= 1.
CleanupDeleteSingles(p, d) ==
    LET stale == {c \in d.cart : c.session_id = p.req.session_id /\ c.quantity <= 1}
    IN  Out([Respond(p, 200) EXCEPT !.count = Cardinality(stale)],
            [d EXCEPT !.cart = @ \ stale])

\* lines 160-161
CleanupDelete(p, d) ==
    LET stale == {c \in d.cart : c.session_id = p.req.session_id /\ c.quantity <= 0}
    IN  Out([Respond(p, 200) EXCEPT !.count = Cardinality(stale)],
            [d EXCEPT !.cart = @ \ stale])

---------------------------------------------------------------------------
(* list_orders *)

\* .sort("created_at", -1)
RECURSIVE SortCreatedDesc(_)
SortCreatedDesc(S) ==
    IF S = {} THEN <<>>
    ELSE LET newest == CHOOSE x \in S : \A y \in S :
                           \/ x.created_at > y.created_at
                           \/ x.created_at = y.created_at /\ x._id <= y._id
         IN  <<newest>> \o SortCreatedDesc(S \ {newest})

\* Faulty variant: the sort direction is ascending.
OrdersFindOldestFirst(p, d) ==
    LET newest == SortCreatedDesc({o \in d.order : o.session_id = p.req.session_id})
        orders == [k \in 1..Len(newest) |-> newest[Len(newest) + 1 - k]]
    IN  Out([Respond(p, 200) EXCEPT !.orders = orders], d)

\* lines 203-210
OrdersFind(p, d) ==
    LET orders == SortCreatedDesc({o \in d.order : o.session_id = p.req.session_id})
    IN  Out([Respond(p, 200) EXCEPT !.orders = orders], d)

---------------------------------------------------------------------------
(* seed_products *)

\* lines 62-66
SeedCount(p, d) ==
    LET count == Cardinality(d.product)
    IN  IF count > 0 /\ ~p.req.force THEN Out([Respond(p, 200) EXCEPT !.count = 0], d)
        ELSE IF p.req.force THEN Out([p EXCEPT !.pc = "seed_delete"], d)
        ELSE Out([p EXCEPT !.pc = "seed_insert"], d)

\* line 67
SeedDelete(p, d) ==
    Out([p EXCEPT !.pc = "seed_insert"], [d EXCEPT !.product = {}])

\* lines 107-108: insert_many gives each sample product a fresh ObjectId
SeedInsert(p, d) ==
    LET n == Len(sample_products)
        docs == {[_id |-> d.oid.product + i] @@ sample_products[i] : i \in 1..n}
    IN  Out([Respond(p, 200) EXCEPT !.count = n],
            [d EXCEPT !.product = @ \cup docs, !.oid.product = @ + n])

---------------------------------------------------------------------------
(* A handler as the sequence of its steps *)

\* The request enters its handler; FastAPI validates a CartItem body first and
\* answers 422 without entering add_to_cart.
Start(req) ==
    CASE req.op = "add_to_cart" ->
             IF CartItemValid(req) THEN Frame(req, "add_get_product")
             ELSE Respond(Frame(req, "validate"), 422)
      [] req.op \in {"get_cart", "checkout"} -> Frame(req, "cart_find")
      [] req.op = "cleanup_cart" -> Frame(req, "cleanup_delete")
      [] req.op = "list_orders" -> Frame(req, "orders_find")
      [] req.op = "seed_products" -> Frame(req, "seed_count")

Step(p, d) ==
    CASE p.pc = "add_get_product" -> AddGetProduct(p, d)
      [] p.pc = "add_find_existing" -> AddFindExisting(p, d)
      [] p.pc = "add_write" -> AddWrite(p, d)
      [] p.pc = "add_reread" -> AddReread(p, d)
      [] p.pc = "add_create" -> AddCreate(p, d)
      [] p.pc = "add_read_created" -> AddReadCreated(p, d)
      [] p.pc = "cart_find" -> CartFind(p, d)
      [] p.pc = "cart_hydrate" -> CartHydrate(p, d)
      [] p.pc = "checkout_create" -> CheckoutCreate(p, d)
      [] p.pc = "checkout_clear" -> CheckoutClear(p, d)
      [] p.pc = "cleanup_delete" -> CleanupDelete(p, d)
      [] p.pc = "orders_find" -> OrdersFind(p, d)
      [] p.pc = "seed_count" -> SeedCount(p, d)
      [] p.pc = "seed_delete" -> SeedDelete(p, d)
      [] p.pc = "seed_insert" -> SeedInsert(p, d)

\* The handler run to its response, no other request in between.
RECURSIVE Run(_)
Run(o) == IF o.p.pc = "done" THEN o ELSE Run(Step(o.p, o.db))

Handle(req, d) == Run(Out(Start(req), d))

---------------------------------------------------------------------------
(* Requests in flight *)

Init ==
    /\ db = [product |-> {}, cart |-> {}, order |-> {},
             oid |-> [product |-> 0, cart |-> 0, order |-> 0]]
    /\ procs = [i \in Workers |-> Idle]

Running(i) == procs[i].pc \notin {"idle", "done"}

InFlight(op) == Cardinality({i \in Workers : Running(i) /\ procs[i].req.op = op})

\* The largest quantity among the pair's lines, and what the adds in flight
\* for the pair may still add to it.
QtyOf(s, pid) ==
    LET qs == {c.quantity : c \in {x \in db.cart : x.session_id = s /\ x.product_id = pid}}
    IN  IF qs = {} THEN 0 ELSE CHOOSE q \in qs : \A x \in qs : q >= x

RECURSIVE PendingQty(_, _, _)
PendingQty(W, s, pid) ==
    IF W = {} THEN 0
    ELSE LET i == CHOOSE x \in W : TRUE
             r == procs[i].req
             mine == IF Running(i) /\ r.op = "add_to_cart" /\ r.session_id = s
                        /\ r.product_id = pid /\ r.quantity > 0
                     THEN r.quantity ELSE 0
         IN  mine + PendingQty(W \ {i}, s, pid)

\* The adds in flight that have not yet looked for their line or are about to
\* create it: each may still take an ObjectId of the cart collection.
MayInsert ==
    Cardinality({i \in Workers :
        procs[i].pc \in {"add_get_product", "add_find_existing", "add_create"}})

\* The model's bounds: no request is admitted that could take an ObjectId
\* counter or a quantity beyond them.
Admit(req) ==
    CASE req.op = "add_to_cart" ->
             /\ db.oid.cart + MayInsert < MaxCartDocs
             /\ QtyOf(req.session_id, req.product_id)
                  + PendingQty(Workers, req.session_id, req.product_id)
                  + req.quantity <= MaxQty
      [] req.op = "checkout" -> db.oid.order + InFlight("checkout") < MaxOrders
      [] req.op = "seed_products" ->
             db.oid.product + (InFlight("seed_products") + 1) * Len(sample_products)
                 <= MaxSeeds * Len(sample_products)
      [] OTHER -> TRUE

\* The response is sent and the worker is free again.
SendResponse(i) ==
    /\ procs[i].pc = "done"
    /\ procs' = [procs EXCEPT ![i] = Idle]
    /\ UNCHANGED db

---------------------------------------------------------------------------
(* Specification Spec: one request at a time, each handler run to its     *)
(* response before the next request is taken                               *)

Quiet == \A i \in Workers : procs[i].pc = "idle"

Serve(req) ==
    \E r \in {Handle(req, db)} :
        /\ db' = r.db
        /\ procs' = [procs EXCEPT ![1] = r.p]

add_to_cart(s, pid, q) ==
    LET req == Request("add_to_cart", s, pid, q, "ann@shop.io", FALSE)
    IN  /\ Quiet
        /\ Admit(req)
        /\ Serve(req)

get_cart(s) ==
    /\ Quiet
    /\ Serve(Request("get_cart", s, EmptyId, 0, "ann@shop.io", FALSE))

cleanup_cart(s) ==
    /\ Quiet
    /\ Serve(Request("cleanup_cart", s, EmptyId, 0, "ann@shop.io", FALSE))

checkout(s, email) ==
    LET req == Request("checkout", s, EmptyId, 0, email, FALSE)
    IN  /\ Quiet
        /\ Admit(req)
        /\ Serve(req)

list_orders(s) ==
    /\ Quiet
    /\ Serve(Request("list_orders", s, EmptyId, 0, "ann@shop.io", FALSE))

seed_products(force) ==
    LET req == Request("seed_products", "s1", EmptyId, 0, "ann@shop.io", force)
    IN  /\ Quiet
        /\ Admit(req)
        /\ Serve(req)

Next ==
    \/ \E s \in SessionIds, pid \in ProductIdInputs, q \in QuantityInputs :
           add_to_cart(s, pid, q)
    \/ \E s \in SessionIds : get_cart(s)
    \/ \E s \in SessionIds : cleanup_cart(s)
    \/ \E s \in SessionIds, email \in EmailInputs : checkout(s, email)
    \/ \E s \in SessionIds : list_orders(s)
    \/ \E force \in BOOLEAN : seed_products(force)
    \/ SendResponse(1)

Spec == Init /\ [][Next]_vars

\* The request just handled, with its response (Spec).
last == procs[1]

---------------------------------------------------------------------------
(* Specification SpecConc: the handlers' store calls interleave.           *)
(* It takes the requests whose handlers write to the store; get_cart and   *)
(* list_orders only read, and no store state depends on when they run.     *)

\* A request arrives at a free worker (the lowest free one) and is validated.
Begin(i, req) ==
    /\ procs[i].pc = "idle"
    /\ \A j \in Workers : j < i => procs[j].pc # "idle"
    /\ Admit(req)
    /\ procs' = [procs EXCEPT ![i] = Start(req)]
    /\ UNCHANGED db

BeginAddToCart(i) ==
    \E s \in SessionIds, pid \in ConcProductIds, q \in ConcQuantities :
        /\ Begin(i, Request("add_to_cart", s, pid, q, "ann@shop.io", FALSE))
        /\ procs'[i].req.op = "add_to_cart"

BeginCleanupCart(i) ==
    \E s \in SessionIds :
        /\ Begin(i, Request("cleanup_cart", s, EmptyId, 0, "ann@shop.io", FALSE))
        /\ procs'[i].req.op = "cleanup_cart"

BeginCheckout(i) ==
    \E s \in SessionIds, email \in EmailInputs :
        /\ Begin(i, Request("checkout", s, EmptyId, 0, email, FALSE))
        /\ procs'[i].req.op = "checkout"

BeginSeedProducts(i) ==
    \E force \in BOOLEAN :
        /\ Begin(i, Request("seed_products", "s1", EmptyId, 0, "ann@shop.io", force))
        /\ procs'[i].req.op = "seed_products"

\* Worker i makes the store call it stands at, and runs on to its next one.
Advance(i) ==
    \E r \in {Step(procs[i], db)} :
        /\ db' = r.db
        /\ procs' = [procs EXCEPT ![i] = r.p]

AddGetProductCall(i) == procs[i].pc = "add_get_product" /\ Advance(i)
AddFindExistingCall(i) == procs[i].pc = "add_find_existing" /\ Advance(i)
AddWriteCall(i) == procs[i].pc = "add_write" /\ Advance(i)
AddRereadCall(i) == procs[i].pc = "add_reread" /\ Advance(i)
AddCreateCall(i) == procs[i].pc = "add_create" /\ Advance(i)
AddReadCreatedCall(i) == procs[i].pc = "add_read_created" /\ Advance(i)
CartFindCall(i) == procs[i].pc = "cart_find" /\ Advance(i)
CartHydrateCall(i) == procs[i].pc = "cart_hydrate" /\ Advance(i)
CheckoutCreateCall(i) == procs[i].pc = "checkout_create" /\ Advance(i)
CheckoutClearCall(i) == procs[i].pc = "checkout_clear" /\ Advance(i)
CleanupDeleteCall(i) == procs[i].pc = "cleanup_delete" /\ Advance(i)
SeedCountCall(i) == procs[i].pc = "seed_count" /\ Advance(i)
SeedDeleteCall(i) == procs[i].pc = "seed_delete" /\ Advance(i)
SeedInsertCall(i) == procs[i].pc = "seed_insert" /\ Advance(i)

NextConc ==
    \E i \in Workers :
        \/ BeginAddToCart(i)
        \/ BeginCleanupCart(i)
        \/ BeginCheckout(i)
        \/ BeginSeedProducts(i)
        \/ AddGetProductCall(i)
        \/ AddFindExistingCall(i)
        \/ AddWriteCall(i)
        \/ AddRereadCall(i)
        \/ AddCreateCall(i)
        \/ AddReadCreatedCall(i)
        \/ CartFindCall(i)
        \/ CartHydrateCall(i)
        \/ CheckoutCreateCall(i)
        \/ CheckoutClearCall(i)
        \/ CleanupDeleteCall(i)
        \/ SeedCountCall(i)
        \/ SeedDeleteCall(i)
        \/ SeedInsertCall(i)
        \/ SendResponse(i)

SpecConc == Init /\ [][NextConc]_vars

---------------------------------------------------------------------------
(* Vocabulary of the properties *)

MalformedIds == {NotHexId, EmptyId}

LinesOf(d, s) == {c \in d.cart : c.session_id = s}

LinesFor(d, s, pid) == {c \in d.cart : c.session_id = s /\ c.product_id = pid}

InCatalog(d, pid) == \E x \in d.product : x._id = pid

PriceOf(d, pid) == (CHOOSE x \in d.product : x._id = pid).price

Dangling(d, s) == \E c \in LinesOf(d, s) : ~InCatalog(d, c.product_id)

\* The sum of quantity * current price over a set of cart lines
RECURSIVE SumLines(_, _)
SumLines(d, L) ==
    IF L = {} THEN 0
    ELSE LET c == CHOOSE x \in L : TRUE
         IN  c.quantity * PriceOf(d, c.product_id) + SumLines(d, L \ {c})

\* In Spec: this step is a call of op, handled to its response.
Called(op) ==
    /\ procs[1].pc = "idle"
    /\ procs'[1].pc = "done"
    /\ procs'[1].req.op = op

\* In Spec: the state right after a call of op.
After(op) == last.pc = "done" /\ last.req.op = op

GetCartRequest(s) == Request("get_cart", s, EmptyId, 0, "ann@shop.io", FALSE)

---------------------------------------------------------------------------
(* Properties *)

\* C1: addItem(s, p, q) with q > 0, p in the catalog and no cart line for
\* (s, p) creates exactly one new cart line for (s, p), with quantity q, and
\* leaves every other cart line (and the other collections) unchanged.
C1_AddCreatesOneLine ==
    [][ LET r == procs'[1].req
        IN  ( /\ Called("add_to_cart")
              /\ r.quantity > 0
              /\ InCatalog(db, r.product_id)
              /\ LinesFor(db, r.session_id, r.product_id) = {} )
            => /\ procs'[1].status = 200
               /\ \E c \in db'.cart :
                     /\ c \notin db.cart
                     /\ \A x \in db.cart : x._id # c._id
                     /\ db'.cart = db.cart \cup {c}
                     /\ c.session_id = r.session_id
                     /\ c.product_id = r.product_id
                     /\ c.quantity = r.quantity
                     /\ procs'[1].line = {c}
               /\ db'.product = db.product
               /\ db'.order = db.order ]_vars

C1_Witness ==
    /\ After("add_to_cart")
    /\ last.status = 200
    /\ last.existing = {}
    /\ last.req.quantity = 2
    /\ Cardinality(db.cart) = 2
    /\ \E c \in db.cart : c \in last.line /\ c.quantity = 2

\* C2 (as claimed): addItem(s, p, q) on an existing line (s, p) of quantity n,
\* for any integer q: if n + q > 0 the line's quantity becomes n + q, otherwise
\* the line is deleted and the result is "removed".
C2_DeltaApplied ==
    [][ LET r == procs'[1].req
            L == LinesFor(db, r.session_id, r.product_id)
        IN  ( /\ Called("add_to_cart")
              /\ InCatalog(db, r.product_id)
              /\ L # {} )
            => \A e \in L :
                 IF e.quantity + r.quantity > 0
                 THEN db'.cart = (db.cart \ {e})
                                   \cup {[e EXCEPT !.quantity = e.quantity + r.quantity]}
                 ELSE /\ db'.cart = db.cart \ {e}
                      /\ procs'[1].removed ]_vars

\* C3: checkout(s, ...) on a non-empty cart whose products all exist, with a
\* valid email, run without interleaving: exactly one new Order is created, for
\* s; its total is the total getCart(s) returned right before; it holds one
\* snapshot entry per cart line; and getCart(s) afterwards returns zero lines.
C3_CheckoutConvertsCart ==
    [][ LET r == procs'[1].req
            s == r.session_id
            before == Handle(GetCartRequest(s), db).p
            after == Handle(GetCartRequest(s), db').p
        IN  ( /\ Called("checkout")
              /\ LinesOf(db, s) # {}
              /\ ~Dangling(db, s)
              /\ r.customer_email = "ann@shop.io" )
            => /\ procs'[1].status = 200
               /\ db.order \subseteq db'.order
               /\ \E o \in db'.order :
                     /\ db'.order \ db.order = {o}
                     /\ o._id = procs'[1].order_id
                     /\ o.session_id = s
                     /\ o.total = before.cart_total
                     /\ Len(o.items) = Cardinality(LinesOf(db, s))
                     /\ \A c \in LinesOf(db, s) :
                           \E i \in 1..Len(o.items) :
                              /\ o.items[i].product_id = c.product_id
                              /\ o.items[i].quantity = c.quantity
               /\ after.status = 200
               /\ Len(after.enriched) = 0
               /\ LinesOf(db', s) = {} ]_vars

\* The spec's example: Classic Tee (19.99) x 2 and Minimal Backpack (49.00) x 1
\* are checked out into an order of 2 entries and total 88.98.
C3_Witness ==
    /\ After("checkout")
    /\ last.status = 200
    /\ LinesOf(db, last.req.session_id) = {}
    /\ \E o \in db.order :
          /\ o._id = last.order_id
          /\ Len(o.items) = 2
          /\ o.total = 88980

\* C4: checkout on a session whose cart has zero lines fails with EmptyCart
\* (400), whatever the email; it creates no Order and changes no collection.
C4_EmptyCartRefused ==
    [][ ( /\ Called("checkout")
          /\ LinesOf(db, procs'[1].req.session_id) = {} )
        => /\ procs'[1].status = 400
           /\ db' = db ]_vars

C4_Witness ==
    /\ After("checkout")
    /\ last.status = 400
    /\ last.req.customer_email = "ann-at-shop"
    /\ LinesOf(db, last.req.session_id) = {}
    /\ db.cart # {}
    /\ db.order # {}

\* C5: when every call runs to completion without interleaving, there is at
\* most one cart line per (session, product) pair.
C5_OneLinePerPair ==
    \A c1, c2 \in db.cart :
        (c1.session_id = c2.session_id /\ c1.product_id = c2.product_id) => c1 = c2

\* An add has just merged into the existing line of its pair.
C5_Witness ==
    /\ After("add_to_cart")
    /\ last.status = 200
    /\ last.existing # {}
    /\ \E c \in db.cart :
          /\ LinesFor(db, last.req.session_id, last.req.product_id) = {c}
          /\ c.quantity = 3

\* C6: in every reachable state, also when the store calls of concurrent
\* addItem, cleanup and checkout calls interleave, every persisted cart line
\* has a quantity >= 1.
C6_QuantityPositive == \A c \in db.cart : c.quantity >= 1

\* Two adds for one line interleaved: both read the line before either wrote.
C6_Witness ==
    /\ \A i \in Workers :
          /\ procs[i].pc = "done"
          /\ procs[i].req.op = "add_to_cart"
          /\ procs[i].status = 200
          /\ procs[i].new_qty = 2
    /\ procs[1].existing = procs[2].existing
    /\ \E c \in db.cart : c \in procs[1].line /\ c.quantity = 2

\* C7: getCart(s) returns one hydrated item per cart line of s, each with the
\* line's quantity and subtotal = quantity * current price rounded to 2
\* decimals; the total is the sum of quantity * current price over the lines,
\* rounded to 2 decimals once at the end; no collection changes.
C7_CartView ==
    [][ LET s == procs'[1].req.session_id
            L == LinesOf(db, s)
            items == procs'[1].enriched
        IN  ( /\ Called("get_cart")
              /\ ~Dangling(db, s) )
            => /\ procs'[1].status = 200
               /\ Len(items) = Cardinality(L)
               /\ \A c \in L :
                     \E i \in 1..Len(items) :
                        /\ items[i].id = c._id
                        /\ items[i].product_id = c.product_id
                        /\ items[i].quantity = c.quantity
                        /\ items[i].price = PriceOf(db, c.product_id)
                        /\ items[i].subtotal
                             = Round2(c.quantity * PriceOf(db, c.product_id))
               /\ procs'[1].cart_total = Round2(SumLines(db, L))
               /\ db' = db ]_vars

C7_Witness ==
    /\ After("get_cart")
    /\ last.status = 200
    /\ Len(last.enriched) = 2
    /\ last.enriched[1].subtotal = 39980
    /\ last.enriched[2].subtotal = 49000
    /\ last.cart_total = 88980

\* C8: a malformed product identifier yields 400 and never 404, whether or not
\* any product exists; a well-formed identifier of no product yields 404; a
\* well-formed identifier of an existing product is found; a failed lookup
\* changes nothing.
C8_LookupErrors ==
    [][ LET r == procs'[1].req
        IN  ( /\ Called("add_to_cart")
              /\ r.quantity >= 1 )
            => CASE r.product_id \in MalformedIds ->
                        procs'[1].status = 400 /\ db' = db
                 [] r.product_id \notin MalformedIds /\ ~InCatalog(db, r.product_id) ->
                        procs'[1].status = 404 /\ db' = db
                 [] OTHER ->
                        /\ procs'[1].status = 200
                        /\ get_product_or_404(r.product_id, db).prod
                             = {x \in db.product : x._id = r.product_id} ]_vars

\* A malformed identifier is answered 400 while the catalog holds products.
C8_Witness ==
    /\ After("add_to_cart")
    /\ last.req.product_id \in MalformedIds
    /\ last.status = 400
    /\ db.product # {}

\* C9: no operation updates or deletes an Order; the order collection only
\* grows, by one Order at a time, and only in a successful checkout.
C9_OrdersImmutable ==
    [][ /\ db.order \subseteq db'.order
        /\ db'.order # db.order
             => /\ Called("checkout")
                /\ procs'[1].status = 200
                /\ Cardinality(db'.order \ db.order) = 1 ]_vars

\* The catalog has been replaced by a forced re-seed, and an order whose
\* products are gone is still there, as is an order made after another.
C9_Witness ==
    /\ After("seed_products")
    /\ last.req.force
    /\ Cardinality(db.order) = 2
    /\ \E o \in db.order : ~InCatalog(db, o.items[1].product_id)

\* C10: if a cart line of the session references a product that no longer
\* exists, getCart fails as a whole with NotFound (404), and checkout fails
\* the same way, creates no Order and does not clear the cart.
C10_DanglingLine ==
    [][ ( /\ Called("get_cart") \/ Called("checkout")
          /\ Dangling(db, procs'[1].req.session_id) )
        => /\ procs'[1].status = 404
           /\ db' = db ]_vars

C10_Witness ==
    /\ After("checkout")
    /\ last.status = 404
    /\ Cardinality(LinesOf(db, last.req.session_id)) = 2
    /\ \E c \in LinesOf(db, last.req.session_id) : InCatalog(db, c.product_id)
    /\ Dangling(db, last.req.session_id)

\* C11: checkout with a customer email that is not a valid address fails as a
\* client (400-class) error, creates no Order and leaves the cart lines
\* unchanged, also when the cart is not empty.
C11_InvalidEmailClientError ==
    [][ ( /\ Called("checkout")
          /\ ~EmailStrValid(procs'[1].req.customer_email) )
        => /\ procs'[1].status \in 400..499
           /\ db' = db ]_vars

\* C12: listOrders(s) returns exactly the orders of session s, each once, the
\* later created before the earlier created, and changes no collection.
C12_OrdersNewestFirst ==
    [][ Called("list_orders")
        => LET mine == {o \in db.order : o.session_id = procs'[1].req.session_id}
               r == procs'[1].orders
           IN  /\ procs'[1].status = 200
               /\ {r[k] : k \in 1..Len(r)} = mine
               /\ Len(r) = Cardinality(mine)
               /\ \A j, k \in 1..Len(r) : j < k => r[j].created_at > r[k].created_at
               /\ db' = db ]_vars

C12_Witness ==
    /\ After("list_orders")
    /\ Len(last.orders) = 2
    /\ last.orders[1]._id > last.orders[2]._id

\* C13: cleanup(s) deletes exactly the lines of session s whose quantity is
\* <= 0 and reports how many; a second cleanup deletes nothing; and as no
\* reachable cart holds such a line, it deletes nothing and reports 0.
C13_CleanupStale ==
    [][ Called("cleanup_cart")
        => LET stale == {c \in LinesOf(db, procs'[1].req.session_id) : c.quantity <= 0}
           IN  /\ procs'[1].status = 200
               /\ db'.cart = db.cart \ stale
               /\ procs'[1].count = Cardinality(stale)
               /\ db'.product = db.product /\ db'.order = db.order
               /\ \E r \in {Handle(procs'[1].req, db')} :
                      r.p.count = 0 /\ r.db = db'
               /\ procs'[1].count = 0
               /\ db' = db ]_vars

C13_Witness ==
    /\ After("cleanup_cart")
    /\ last.count = 0
    /\ \E c \in LinesOf(db, last.req.session_id) : c.quantity = 1
    /\ db.order # {}

\* C18: an addItem that fails leaves every collection unchanged, and it fails
\* whenever the product id is malformed, the product is not in the catalog
\* (also when a line for the pair exists, whatever the sign of the delta), or
\* the quantity is <= 0 and no line exists.
C18_FailedAddNoEffect ==
    [][ Called("add_to_cart")
        => LET req == procs'[1].req
               refused == \/ req.product_id \in MalformedIds
                          \/ ~InCatalog(db, req.product_id)
                          \/ /\ req.quantity <= 0
                             /\ LinesFor(db, req.session_id, req.product_id) = {}
           IN  /\ refused => procs'[1].status \in 400..499
               /\ procs'[1].status # 200 => db' = db ]_vars

C18_Witness ==
    /\ After("add_to_cart")
    /\ last.status = 404
    /\ last.req.quantity > 0
    /\ LinesFor(db, last.req.session_id, last.req.product_id) # {}

---------------------------------------------------------------------------
(* Properties of interleaved handlers (SpecConc) *)

\* In SpecConc: in this step worker i makes the store call it stands at, pc.
At(i, pc) == procs[i].pc = pc /\ procs'[i] # procs[i]

\* In SpecConc: worker i has answered a request of op with this status.
Answered(i, op, status) ==
    /\ procs[i].pc = "done"
    /\ procs[i].req.op = op
    /\ procs[i].status = status

\* The sum of quantity * price over the snapshot lines of an order
RECURSIVE SumItems(_)
SumItems(items) ==
    IF items = <<>> THEN 0
    ELSE Head(items).quantity * Head(items).price + SumItems(Tail(items))

\* C14: the insert of an addItem that observed no line for (s, p) is not
\* conditional on the cart at the time of the insert: it adds one more line
\* for (s, p) even when another addItem has inserted one in between, so that
\* two lines for one (s, p) are reachable.
C14_InsertUnguarded ==
    [][ \A i \in Workers : At(i, "add_create")
        => /\ procs[i].existing = {}
           /\ \E c \in db'.cart :
                 /\ c \notin db.cart
                 /\ db'.cart = db.cart \cup {c}
                 /\ Cardinality(db'.cart) = Cardinality(db.cart) + 1
                 /\ c.session_id = procs[i].req.session_id
                 /\ c.product_id = procs[i].req.product_id
                 /\ c.quantity = procs[i].req.quantity ]_vars

C14_Witness ==
    /\ \A i \in Workers : Answered(i, "add_to_cart", 200) /\ procs[i].existing = {}
    /\ procs[1].req.session_id = procs[2].req.session_id
    /\ procs[1].req.product_id = procs[2].req.product_id
    /\ Cardinality(LinesFor(db, procs[1].req.session_id, procs[1].req.product_id)) = 2

\* C15: the clear of a checkout deletes every line the session has at that
\* time, whether snapshotted or not, so that a line added between the
\* checkout's read and its clear ends in neither the cart nor any order.
C15_ClearUnconditional ==
    [][ \A i \in Workers : At(i, "checkout_clear")
        => /\ db'.cart = {c \in db.cart : c.session_id # procs[i].req.session_id}
           /\ db'.order = db.order
           /\ procs'[i].pc = "done" /\ procs'[i].status = 200 ]_vars

C15_Witness ==
    \E i, j \in Workers :
        /\ Answered(i, "add_to_cart", 200)
        /\ Answered(j, "checkout", 200)
        /\ procs[i].req.session_id = procs[j].req.session_id
        /\ procs[i].line # {} /\ procs[i].existing = {}
        /\ LinesFor(db, procs[i].req.session_id, procs[i].req.product_id) = {}
        /\ \A o \in db.order : \A k \in 1..Len(o.items) :
               o.items[k].product_id # procs[i].req.product_id

\* C16: a checkout persists the Order of the lines it read, whether or not
\* they are still in the cart, so that two interleaved checkouts of one
\* session snapshot the same lines into two orders.
C16_CreateUnguarded ==
    [][ \A i \in Workers : At(i, "checkout_create")
        => /\ \E o \in db'.order :
                 /\ o \notin db.order
                 /\ db'.order = db.order \cup {o}
                 /\ o.session_id = procs[i].req.session_id
                 /\ o.items = OrderItems(procs[i].enriched)
                 /\ o.total = procs[i].cart_total
           /\ db'.cart = db.cart ]_vars

C16_Witness ==
    /\ \A i \in Workers : Answered(i, "checkout", 200)
    /\ procs[1].order_id # procs[2].order_id
    /\ \E o1, o2 \in db.order :
          /\ o1._id = procs[1].order_id /\ o2._id = procs[2].order_id
          /\ o1.session_id = o2.session_id
          /\ o1.items = o2.items

\* C17: the only store call of a checkout that changes the cart is its clear,
\* made when its own Order is already in the order store and answered 200; a
\* checkout that fails changes no collection.
C17_OrderBeforeClear ==
    [][ \A i \in Workers :
          ( /\ procs[i].req.op = "checkout"
            /\ procs'[i] # procs[i] )
          => /\ db'.cart # db.cart
                => /\ procs[i].pc = "checkout_clear"
                   /\ \E o \in db.order :
                         /\ o._id = procs[i].doc_id
                         /\ o.session_id = procs[i].req.session_id
                   /\ procs'[i].status = 200
             /\ ( procs'[i].pc = "done" /\ procs'[i].status # 200 )
                => db' = db ]_vars

C17_Witness ==
    \E i, j \in Workers :
        /\ procs[i].pc = "checkout_clear"
        /\ \E o \in db.order : o._id = procs[i].doc_id
        /\ LinesOf(db, procs[i].req.session_id) # {}
        /\ Answered(j, "checkout", 500)
        /\ procs[j].req.session_id = procs[i].req.session_id

ListOrdersRequest(s) == Request("list_orders", s, EmptyId, 0, "ann@shop.io", FALSE)

\* C19: a store call made for a request of session s leaves the cart lines
\* and the orders of every other session as they are, under any interleaving;
\* and in every state getCart(s) and listOrders(s) read only lines and orders
\* of session s.
C19_SessionsIsolated ==
    /\ [][ \A i \in Workers :
             ( /\ procs[i].req.op \in {"add_to_cart", "cleanup_cart", "checkout"}
               /\ procs'[i] # procs[i] )
             => LET s == procs[i].req.session_id
                IN  /\ {c \in db'.cart : c.session_id # s}
                         = {c \in db.cart : c.session_id # s}
                    /\ {o \in db'.order : o.session_id # s}
                         = {o \in db.order : o.session_id # s}
                    /\ \A k \in 1..Len(procs'[i].items) :
                           procs'[i].items[k].session_id = s ]_vars
    /\ [](\A s \in SessionIds :
             /\ \E r \in {CartFind(Start(GetCartRequest(s)), db)} :
                    /\ \A k \in 1..Len(r.p.items) : r.p.items[k].session_id = s
                    /\ Len(r.p.items) = Cardinality(LinesOf(db, s))
                    /\ r.db = db
             /\ \E r \in {OrdersFind(Start(ListOrdersRequest(s)), db)} :
                    /\ \A k \in 1..Len(r.p.orders) : r.p.orders[k].session_id = s
                    /\ r.db = db)

C19_Witness ==
    \E i, j \in Workers :
        /\ Answered(i, "checkout", 200)
        /\ procs[j].pc = "add_read_created"
        /\ procs[j].req.session_id # procs[i].req.session_id
        /\ LinesOf(db, procs[i].req.session_id) = {}
        /\ LinesOf(db, procs[j].req.session_id) # {}
        /\ \E o \in db.order : o._id = procs[i].order_id

\* C20: every persisted Order has at least one snapshot line; every snapshot
\* line has quantity >= 1 and subtotal = quantity * price rounded to 2
\* decimals; and the Order's total is the sum of quantity * price over its
\* own snapshot lines rounded to 2 decimals, under any interleaving.
C20_OrderConsistent ==
    \A o \in db.order :
        /\ Len(o.items) >= 1
        /\ \A k \in 1..Len(o.items) :
               /\ o.items[k].quantity >= 1
               /\ o.items[k].subtotal = Round2(o.items[k].quantity * o.items[k].price)
        /\ o.total = Round2(SumItems(o.items))

C20_Witness ==
    \E i \in Workers :
        /\ procs[i].pc = "checkout_clear"
        /\ \E o \in db.order :
              /\ o._id = procs[i].doc_id
              /\ Len(o.items) = 1
              /\ \E c \in LinesOf(db, o.session_id) :
                    /\ c.product_id = o.items[1].product_id
                    /\ c.quantity # o.items[1].quantity

====
